---- MODULE Spec2Model ----
(***************************************************************************)
(* Vingester main process: the registry of Browser objects, the control    *)
(* dispatcher, the Browser life cycle (start / stop / destroy), the frame  *)
(* callbacks with the NDI frame-skip counter, and the events of the        *)
(* environment (window close, timers, promise resolutions).                *)
(*                                                                         *)
(* The program is single threaded: every action below is one run of the    *)
(* event loop from a callback's entry to its next await (or its end).      *)
(***************************************************************************)
EXTENDS Integers, Sequences, FiniteSets, TLC

(* ------------------------------ bounds -------------------------------- *)
MaxObj      == 2    \* Browser objects alive at once
MaxWin      == 2    \* BrowserWindows alive at once
MaxTimers   == 2    \* stop() grace timers pending at once
MaxInFlight == 2    \* processFrame calls suspended at once, per Browser
MaxArrivals == 10   \* frames counted per start of a Browser
MaxLen      == 4    \* window length of a WeightedAverage under any values
MaxCalls    == 5    \* record() calls on such a WeightedAverage
MaxRamp     == 8    \* window length of a WeightedAverage under 1, 2, 3, ...
MaxRate     == 8    \* display frequency and cfg.f, when they vary

(* ------------------------------ inputs -------------------------------- *)
DisplayFrequency == 60          \* D.displayFrequency of the display in use
Rates            == {30, 60}    \* values of cfg.f

Ids     == {1, 2}               \* browser ids the control UI uses
IdOrder == <<1, 2>>             \* Object.keys(browsers), when all are present
Objs    == 1..MaxObj
Wins    == 1..MaxWin

(* cfg: D = visible window, N = NDI output, P = preview, f = frame rate *)
Cfg == [D : BOOLEAN, N : BOOLEAN, P : BOOLEAN, f : Rates]

VARIABLES
    browsers,   \* the registry: id -> Browser object (0 = undefined)
    obj,        \* the Browser objects (id = 0: slot not in use)
    wins,       \* the BrowserWindows
    timers,     \* pending stop() timers, in firing order
    inflight,   \* per Browser: processFrame calls suspended at an await
    count,      \* per Browser, since its last start: frames that reached the
                \* NDI part (n), ndiSender.video calls (sent), frames since
                \* the last such call (gap); fresh: frames was 0 at that start
    events,     \* console events sent by the last step, in the order sent
    rejected,   \* ids whose dropped promise was rejected in the last step
    result,     \* how the last step's call ended for its caller
    lastOp,     \* the last step: what ran, for which id
    display,    \* D.displayFrequency of the display the windows are made on
    mainWin,    \* the control UI window is there (not yet destroyed)
    stat        \* a WeightedAverage, the values recorded into it so far, and
                \* what its last record() computed and whether it called back

heapVars == <<browsers, obj, wins, timers, inflight, count, events, rejected, result, lastOp,
              display, mainWin>>
vars == <<heapVars, stat>>

(* the console events sent by the last step, as a set *)
emitted == {events[i] : i \in 1..Len(events)}

(* the state as one value, so that a handler is a function on it *)
Heap == [browsers |-> browsers, obj |-> obj, wins |-> wins, timers |-> timers,
         inflight |-> inflight, count |-> count, events |-> <<>>, later |-> <<>>,
         rejected |-> {},
         result |-> "ok", display |-> display, mainWin |-> mainWin]

(* Browser.constructor *)
NewBrowser(id, cfg) ==
    [id |-> id, cfg |-> cfg, win |-> 0, subscribed |-> FALSE, ndiSender |-> 0,
     ndiFramesToSkip |-> 0, frames |-> 0, framerate |-> 30]

NoCfg     == [D |-> FALSE, N |-> FALSE, P |-> FALSE, f |-> 30]
NoBrowser == NewBrowser(0, NoCfg)
NoWindow  == [st |-> "none", owner |-> 0, sub |-> FALSE, paint |-> FALSE,
              offscr |-> FALSE, withN |-> FALSE]
NoFrames  == [jimp |-> 0, send |-> 0]
NoCount   == [n |-> 0, sent |-> 0, gap |-> 0, fresh |-> TRUE]

(* Browser.running *)
running(b) == b.win # 0

(* mainWin.webContents.send(ev, id) *)
Send(h, ev, id) == [h EXCEPT !.events = Append(@, <<ev, id>>)]

(* mainWin.webContents.send(ev, id) after an await of a promise that is
   already settled: it runs as a microtask, once the code now running ends *)
SendLater(h, ev, id) == [h EXCEPT !.later = Append(@, <<ev, id>>)]

(* throw new Error(msg): the call ends here *)
Throw(h, msg) == [h EXCEPT !.result = msg]

(* Math.floor(r / f) - 1 *)
FloorRatioMinus1(r, f) == (r \div f) - 1

(* Math.trunc((r / f) - 1), for positive integers r and f (-0 taken as 0) *)
TruncRatioMinus1(r, f) == IF r >= f THEN (r \div f) - 1 ELSE 0 - ((f - r) \div f)

FreeWins(h) == {w \in Wins : h.wins[w].st = "none"}
FreeObjs(h) == {o \in Objs : h.obj[o].id = 0}
LowestOf(S) == CHOOSE x \in S : \A y \in S : x <= y

(* a Browser nothing refers to any more is garbage: its slot is free again *)
Reachable(h, o) ==
    \/ \E id \in Ids : h.browsers[id] = o
    \/ \E w \in Wins : h.wins[w].st # "none" /\ h.wins[w].owner = o
    \/ \E i \in 1..Len(h.timers) : h.timers[i].o = o
    \/ h.inflight[o] # NoFrames

Collect(h) ==
    IF \A o \in Objs : (h.obj[o] = NoBrowser /\ h.count[o] = NoCount) \/ Reachable(h, o)
    THEN h
    ELSE [h EXCEPT !.obj   = [o \in Objs |-> IF Reachable(h, o) THEN h.obj[o] ELSE NoBrowser],
                   !.count = [o \in Objs |-> IF Reachable(h, o) THEN h.count[o] ELSE NoCount]]

(* win.destroy(): the window is gone, with its subscriptions and handlers *)
DestroyWindow(h, w) == [h EXCEPT !.wins[w] = NoWindow]

(* Browser.start, after the await of grandiose.send: the rest of start() *)
StartRest(h, o, w) ==
    LET b  == h.obj[o]
        c  == b.cfg
        k  == TruncRatioMinus1(h.display, b.framerate)
        h1 == IF c.D
              THEN IF c.N \/ c.P
                   THEN [h EXCEPT !.obj[o].ndiFramesToSkip = k,
                                  !.obj[o].subscribed = TRUE,
                                  !.wins[w].sub = TRUE]
                   ELSE [h EXCEPT !.obj[o].ndiFramesToSkip = k]
              ELSE IF c.N
                   THEN [h EXCEPT !.obj[o].ndiFramesToSkip = 0,
                                  !.wins[w].paint = TRUE]
                   ELSE h
    IN  [h1 EXCEPT !.wins[w].st = "live", !.obj[o].win = w,
                   !.count[o] = [NoCount EXCEPT !.fresh = (b.frames = 0)]]

(* Browser.start with `this.win = win` moved up to the window's creation,
   ahead of the await of grandiose.send *)
StartSyncEarly(h, o) ==
    LET b  == h.obj[o]
        c  == b.cfg
        w  == LowestOf(FreeWins(h))
        h1 == [h EXCEPT !.wins[w] = [st |-> "pending", owner |-> o, sub |-> FALSE,
                                    paint |-> FALSE, offscr |-> ~c.D, withN |-> c.N],
                        !.obj[o].framerate = IF c.N THEN c.f ELSE h.display,
                        !.obj[o].win = w]
    IN  IF c.N
        THEN [h1 EXCEPT !.result = "pending"]
        ELSE StartRest([h1 EXCEPT !.obj[o].ndiSender = 0], o, w)

(* Browser.start, up to the await of grandiose.send (no await when !cfg.N) *)
StartSync(h, o) ==
    LET b  == h.obj[o]
        c  == b.cfg
        w  == LowestOf(FreeWins(h))
        h1 == [h EXCEPT !.wins[w] = [st |-> "pending", owner |-> o, sub |-> FALSE,
                                    paint |-> FALSE, offscr |-> ~c.D, withN |-> c.N],
                        !.obj[o].framerate = IF c.N THEN c.f ELSE h.display]
    IN  IF c.N
        THEN [h1 EXCEPT !.result = "pending"]
        ELSE StartRest([h1 EXCEPT !.obj[o].ndiSender = 0], o, w)

(* Browser.update *)
Update(h, o) ==
    LET b == h.obj[o]
    IN  IF b.win # 0 /\ b.cfg.D
        THEN IF b.subscribed /\ ~b.cfg.P
             THEN [h EXCEPT !.wins[b.win].sub = FALSE, !.obj[o].subscribed = FALSE]
             ELSE IF ~b.subscribed /\ b.cfg.P
                  THEN [h EXCEPT !.wins[b.win].sub = TRUE, !.obj[o].subscribed = TRUE]
                  ELSE h
        ELSE h

(* Browser.reconfigure *)
Reconfigure(h, o, cfg) == Update([h EXCEPT !.obj[o].cfg = cfg], o)

(* the handle setTimeout returns: one no pending timer has (the one after the
   newest pending timer's, counting round) *)
NewTimer(h) ==
    IF h.timers = <<>> THEN 1
    ELSE (h.timers[Len(h.timers)].t % MaxTimers) + 1

(* Browser.stop, up to the await of the grace timer; kind tells who awaits it *)
StopSync(h, o, kind) ==
    IF h.obj[o].win = 0
    THEN Throw(h, "still not started")
    ELSE [h EXCEPT !.timers = Append(@, [o |-> o, kind |-> kind, t |-> NewTimer(h)]),
                   !.result = "pending"]

(* Browser.stop with a timer callback that leaves the release of the window
   to the close handler *)
StopTimeoutWaits(h, o) == h

(* Browser.stop: the timer callback *)
StopTimeout(h, o) ==
    LET w == h.obj[o].win
    IN  IF w # 0
        THEN [DestroyWindow(h, w) EXCEPT !.obj[o].win = 0]
        ELSE h

(* Browser.destroy that destroys the window and keeps this.win *)
DestroyKeepsWin(h, o) ==
    LET w == h.obj[o].win
    IN  IF w = 0
        THEN Throw(h, "still not started")
        ELSE DestroyWindow(h, w)

(* Browser.destroy *)
Destroy(h, o) ==
    LET w == h.obj[o].win
    IN  IF w = 0
        THEN Throw(h, "still not started")
        ELSE [DestroyWindow(h, w) EXCEPT !.obj[o].win = 0]

(* Browser.processFrame, from "send NDI video frame" on, without the skip test *)
NdiPartUngoverned(h, o) ==
    LET b == h.obj[o]
        c == h.count[o]
    IN  IF b.cfg.N
        THEN LET h1 == [h EXCEPT !.obj[o].frames = 0,
                                 !.count[o] = [c EXCEPT !.n = @ + 1, !.sent = @ + 1,
                                                        !.gap = 0]]
             IN  IF b.ndiSender = 0
                 THEN Throw(h1, "TypeError")
                 ELSE [h1 EXCEPT !.inflight[o].send = @ + 1, !.result = "pending"]
        ELSE h

(* Browser.processFrame, from "send NDI video frame" to its end or to the
   await of ndiSender.video *)
NdiPart(h, o) ==
    LET b == h.obj[o]
        c == h.count[o]
    IN  IF b.cfg.N
        THEN IF b.frames > b.ndiFramesToSkip
             THEN LET h1 == [h EXCEPT !.obj[o].frames = 0,
                                      !.count[o] = [c EXCEPT !.n = @ + 1, !.sent = @ + 1,
                                                             !.gap = 0]]
                  IN  IF b.ndiSender = 0
                      THEN Throw(h1, "TypeError")
                      ELSE [h1 EXCEPT !.inflight[o].send = @ + 1, !.result = "pending"]
             ELSE [h EXCEPT !.obj[o].frames = @ + 1,
                            !.count[o] = [c EXCEPT !.n = @ + 1, !.gap = @ + 1]]
        ELSE h

(* Browser.processFrame, from its entry to its first await (or its end) *)
ProcessFrame(h, o) ==
    LET c == h.obj[o].cfg
    IN  IF ~(c.N \/ c.P)
        THEN h
        ELSE IF c.P
             THEN [h EXCEPT !.inflight[o].jimp = @ + 1, !.result = "pending"]
             ELSE NdiPart(h, o)

(* Browser.processFrame, resumed with the Jimp image: the preview is sent *)
PreviewDone(h, o) ==
    NdiPart(Send([h EXCEPT !.inflight[o].jimp = @ - 1], "capture", h.obj[o].id), o)

(* Browser.processFrame, resumed after ndiSender.video *)
VideoDone(h, o) == [h EXCEPT !.inflight[o].send = @ - 1]

(* ------------------------- WeightedAverage ---------------------------- *)

(* numbers with Number.NEGATIVE_INFINITY and Number.POSITIVE_INFINITY *)
Fin(v) == <<0, v>>
NegInf == <<-1, 0>>
PosInf == <<1, 0>>
Lt(a, b) == a[1] < b[1] \/ (a[1] = 0 /\ b[1] = 0 /\ a[2] < b[2])

(* WeightedAverage.constructor *)
NewWeightedAverage(len, every) ==
    [len |-> len, every |-> every, val |-> [i \in 1..len |-> 0], cnt |-> 0,
     max |-> NegInf, min |-> PosInf]


(* WeightedAverage.record: one round of the loop with every value weighted 1 *)
RecordRoundUnweighted(t, i, a) ==
    LET x == t.val[i + 1]
    IN  [avg |-> a.avg + x, div |-> a.div + 1,
         max |-> IF Lt(a.max, Fin(x)) THEN Fin(x) ELSE a.max,
         min |-> IF Lt(Fin(x), a.min) THEN Fin(x) ELSE a.min]

(* WeightedAverage.record: one round of the loop over the window, for index
   i (0-based); a = [avg, div, max, min] before it *)
RecordRound(t, i, a) ==
    LET x == t.val[i + 1]
        k == t.len - i
    IN  [avg |-> a.avg + x * k,
         div |-> a.div + k,
         max |-> IF Lt(a.max, Fin(x)) THEN Fin(x) ELSE a.max,
         min |-> IF Lt(Fin(x), a.min) THEN Fin(x) ELSE a.min]

(* WeightedAverage.record: the rounds lo, lo + 1, ..., hi - 1 of the loop, in
   this order (the first half of them, then the second half) *)
RECURSIVE RecordLoop(_, _, _, _)
RecordLoop(t, lo, hi, a) ==
    IF hi <= lo THEN a
    ELSE IF hi = lo + 1 THEN RecordRound(t, lo, a)
    ELSE LET mid == (lo + hi) \div 2
         IN  CHOOSE r \in {RecordLoop(t, mid, hi, b) : b \in {RecordLoop(t, lo, mid, a)}} : TRUE

(* WeightedAverage.record(val, callback): the tracker after it, what it
   computed (avg as the fraction avg / div), and the StatSample it passed to
   the callback, if it called it *)
Record(t, v) ==
    LET t1 == [t EXCEPT !.val = SubSeq(<<v>> \o @, 1, t.len)]
        a  == RecordLoop(t1, 0, t1.len,
                         [avg |-> 0, div |-> 0, max |-> NegInf, min |-> PosInf])
        t2 == [t1 EXCEPT !.max = IF Lt(@, a.max) THEN a.max ELSE @,
                         !.min = IF Lt(a.max, @) THEN a.max ELSE @]
        cb == t2.cnt > t2.every
    IN  [wa     |-> [t2 EXCEPT !.cnt = IF cb THEN 0 ELSE @ + 1],
         last   |-> a,
         called |-> cb,
         sample |-> [avg |-> <<a.avg, a.div>>, min |-> a.min, max |-> a.max,
                     tmin |-> t2.min, tmax |-> t2.max]]

NoStat == [wa |-> NewWeightedAverage(0, 0), hist |-> <<>>, called |-> FALSE,
           sample |-> [avg |-> <<0, 0>>, min |-> PosInf, max |-> NegInf,
                       tmin |-> PosInf, tmax |-> NegInf]]

(* ------------------------- the control dispatcher --------------------- *)

(* control("add", id, cfg) *)
ControlAdd(h, id, cfg) ==
    LET h0 == Collect([h EXCEPT !.browsers[id] = 0])
        o  == LowestOf(FreeObjs(h0))
    IN  [h0 EXCEPT !.browsers[id] = o, !.obj[o] = NewBrowser(id, cfg)]

(* control("mod", id, cfg) *)
ControlMod(h, id, cfg) ==
    IF h.browsers[id] = 0
    THEN Throw(h, "TypeError")
    ELSE Reconfigure(h, h.browsers[id], cfg)

(* control("del", id): the promise of stop() is dropped *)
ControlDel(h, id) ==
    LET h1 == IF h.browsers[id] # 0 THEN StopSync(h, h.browsers[id], "del") ELSE h
    IN  [h1 EXCEPT !.browsers[id] = 0, !.result = "ok",
                   !.rejected = IF h1.result \in {"ok", "pending"} THEN @ ELSE @ \cup {id}]

(* control("start", id) that calls browser.start() without awaiting it *)
ControlStartNoAwait(h, id) ==
    LET o == h.browsers[id]
    IN  IF o = 0
        THEN Throw(h, "invalid browser id")
        ELSE IF running(h.obj[o])
             THEN Throw(h, "browser already running")
             ELSE Send(StartSync(Send(h, "browser-start", id), o), "browser-started", id)

(* control("start", id), up to the await of browser.start() or to its end *)
ControlStart(h, id) ==
    LET o == h.browsers[id]
    IN  IF o = 0
        THEN Throw(h, "invalid browser id")
        ELSE IF running(h.obj[o])
             THEN Throw(h, "browser already running")
             ELSE LET h1 == StartSync(Send(h, "browser-start", id), o)
                  IN  IF h1.result = "pending" THEN h1
                      ELSE SendLater(h1, "browser-started", id)

(* control("reload", id) *)
ControlReload(h, id) ==
    LET o == h.browsers[id]
    IN  IF o = 0
        THEN Throw(h, "invalid browser id")
        ELSE IF ~running(h.obj[o])
             THEN Throw(h, "browser still not running")
             ELSE Send(Send(h, "browser-reload", id), "browser-reloaded", id)

(* control("stop", id) that leaves the phase test to Browser.stop *)
ControlStopUnchecked(h, id) ==
    LET o == h.browsers[id]
    IN  IF o = 0
        THEN Throw(h, "invalid browser id")
        ELSE StopSync(Send(h, "browser-stop", id), o, "stop")

(* control("stop", id), up to the await of browser.stop() *)
ControlStop(h, id) ==
    LET o == h.browsers[id]
    IN  IF o = 0
        THEN Throw(h, "invalid browser id")
        ELSE IF ~running(h.obj[o])
             THEN Throw(h, "browser still not running")
             ELSE StopSync(Send(h, "browser-stop", id), o, "stop")

(* the singular action a bulk action dispatches; its promise is dropped *)
Single(h, action, id) ==
    LET h1 == CASE action = "start"  -> ControlStart(h, id)
                [] action = "reload" -> ControlReload(h, id)
                [] action = "stop"   -> ControlStop(h, id)
    IN  [h1 EXCEPT !.result = "ok",
                   !.rejected = IF h1.result \in {"ok", "pending"} THEN @ ELSE @ \cup {id}]

(* a bulk action that leaves the phase test to the singular action *)
AppliesAlways(h, action, id) == h.browsers[id] # 0

(* the test a bulk action makes before it dispatches to id *)
Applies(h, action, id) ==
    /\ h.browsers[id] # 0
    /\ IF action = "start" THEN ~running(h.obj[h.browsers[id]])
                           ELSE running(h.obj[h.browsers[id]])

(* control("start-all" | "reload-all" | "stop-all"): the loop over the ids,
   from the i-th on *)
RECURSIVE Bulk(_, _, _)
Bulk(h, action, i) ==
    IF i > Len(IdOrder) THEN h
    ELSE Bulk(IF Applies(h, action, IdOrder[i]) THEN Single(h, action, IdOrder[i]) ELSE h,
              action, i + 1)

(* mainWin.on("close"): stop-all is awaited (it ends when its loop ends, the
   singular stops it dispatched still at their timers), then mainWin.destroy() *)
CloseMain(h) == [Bulk(h, "stop", 1) EXCEPT !.mainWin = FALSE]

(* ------------------------------ the steps ----------------------------- *)

(* no Browser yet, nothing pending *)
InitRegistry ==
    /\ mainWin  = TRUE
    /\ browsers = [id \in Ids |-> 0]
    /\ obj      = [o \in Objs |-> NoBrowser]
    /\ wins     = [w \in Wins |-> NoWindow]
    /\ timers   = <<>>
    /\ inflight = [o \in Objs |-> NoFrames]
    /\ count    = [o \in Objs |-> NoCount]
    /\ events   = <<>>
    /\ rejected = {}
    /\ result   = "ok"
    /\ lastOp   = [op |-> "init", id |-> 0]

InitHeap ==
    /\ display  = DisplayFrequency
    /\ InitRegistry

Init == InitHeap /\ stat = NoStat

(* the state after a step that ran op for id and left the heap h *)
Becomes(h, op, id) ==
    \E g \in {Collect(h)} :
        /\ browsers' = g.browsers
        /\ obj'      = g.obj
        /\ wins'     = g.wins
        /\ timers'   = g.timers
        /\ inflight' = g.inflight
        /\ count'    = g.count
        /\ events'   = g.events \o g.later
        /\ rejected' = g.rejected
        /\ result'   = g.result
        /\ lastOp'   = [op |-> op, id |-> id]
        /\ display'  = g.display
        /\ mainWin'  = g.mainWin
        /\ stat'     = stat

(* what a start of id would need: a window, when it gets as far as creating it *)
WouldCreate(h, id) == h.browsers[id] # 0 /\ ~running(h.obj[h.browsers[id]])
(* what a stop of id would need: a timer *)
WouldStop(h, id)   == h.browsers[id] # 0 /\ running(h.obj[h.browsers[id]])

Add(id, cfg) ==
    /\ FreeObjs(Collect([Heap EXCEPT !.browsers[id] = 0])) # {}
    /\ Becomes(ControlAdd(Heap, id, cfg), "add", id)

(* add, when no Browser object is left from before *)
AddFirst(id, cfg) ==
    /\ \A o \in Objs : obj[o].id = 0
    /\ Add(id, cfg)

(* add of an id no Browser object has *)
AddNew(id, cfg) ==
    /\ \A o \in Objs : obj[o].id # id
    /\ Add(id, cfg)

Mod(id, cfg) ==
    /\ id \in Ids
    /\ Becomes(ControlMod(Heap, id, cfg), "mod", id)

Del(id) ==
    /\ WouldStop(Heap, id) => Len(timers) < MaxTimers
    /\ Becomes(ControlDel(Heap, id), "del", id)

Start(id) ==
    /\ WouldCreate(Heap, id) => FreeWins(Heap) # {}
    /\ Becomes(ControlStart(Heap, id), "start", id)

Reload(id) ==
    /\ id \in Ids
    /\ Becomes(ControlReload(Heap, id), "reload", id)

Stop(id) ==
    /\ WouldStop(Heap, id) => Len(timers) < MaxTimers
    /\ Becomes(ControlStop(Heap, id), "stop", id)

StartAll ==
    /\ Cardinality({id \in Ids : WouldCreate(Heap, id)}) <= Cardinality(FreeWins(Heap))
    /\ Becomes(Bulk(Heap, "start", 1), "start-all", 0)

ReloadAll ==
    /\ Len(IdOrder) > 0
    /\ Becomes(Bulk(Heap, "reload", 1), "reload-all", 0)

StopAll ==
    /\ Len(timers) + Cardinality({id \in Ids : WouldStop(Heap, id)}) <= MaxTimers
    /\ Becomes(Bulk(Heap, "stop", 1), "stop-all", 0)

(* the user closes the control UI window *)
Shutdown ==
    /\ mainWin
    /\ Len(timers) + Cardinality({id \in Ids : WouldStop(Heap, id)}) <= MaxTimers
    /\ Becomes(CloseMain(Heap), "shutdown", 0)

(* new electron.BrowserWindow throws: control("start") ends after browser-start *)
StartNoWindow(id) ==
    /\ WouldCreate(Heap, id)
    /\ Becomes(Throw(Send(Heap, "browser-start", id), "window failed"), "start", id)

(* grandiose.send resolves: start() of window w goes on to its end, and
   control("start") sends browser-started *)
SenderReady(w) ==
    /\ wins[w].st = "pending"
    /\ LET o  == wins[w].owner
           h1 == StartRest([Heap EXCEPT !.obj[o].ndiSender = 1], o, w)
       IN  Becomes(Send(h1, "browser-started", obj[o].id), "started", obj[o].id)

(* grandiose.send rejects: start() and control("start") throw; the window
   start() made stays as it is *)
SenderFails(w) ==
    /\ wins[w].st = "pending"
    /\ LET o == wins[w].owner
       IN  Becomes(Throw([Heap EXCEPT !.wins[w].st = "leaked"], "send failed"),
                   "start-failed", obj[o].id)

(* the close event of window w: its handler calls destroy() of its Browser *)
CloseEvent(w) ==
    /\ wins[w].st = "live"
    /\ Becomes(Destroy(Heap, wins[w].owner), "close", obj[wins[w].owner].id)

(* the oldest grace timer fires: stop() ends, control("stop") sends browser-stopped *)
TimerFires ==
    /\ timers # <<>>
    /\ LET t  == Head(timers)
           h1 == StopTimeout([Heap EXCEPT !.timers = Tail(@)], t.o)
       IN  Becomes(IF t.kind = "stop" THEN Send(h1, "browser-stopped", obj[t.o].id) ELSE h1,
                   "stopped", obj[t.o].id)

(* window w delivers a frame (frame subscription, or paint when offscreen) *)
Frame(w) ==
    /\ wins[w].st = "live"
    /\ wins[w].sub \/ (wins[w].paint /\ wins[w].offscr)
    /\ LET o == wins[w].owner
       IN  /\ inflight[o].jimp + inflight[o].send < MaxInFlight
           /\ count[o].n + inflight[o].jimp < MaxArrivals
           /\ Becomes(ProcessFrame(Heap, o), "frame", obj[o].id)

(* the Jimp image of a suspended processFrame is ready *)
ImageReady(o) ==
    /\ inflight[o].jimp > 0
    /\ Becomes(PreviewDone(Heap, o), "preview", obj[o].id)

(* ndiSender.video of a suspended processFrame resolves *)
VideoSent(o) ==
    /\ inflight[o].send > 0
    /\ Becomes(VideoDone(Heap, o), "sent", obj[o].id)

(* ------------------------- the specifications ------------------------- *)

(* One surface at a time, offscreen, under every control action, with the
   window and timer events. No frames are delivered. *)
LifeIds == {1}
LifeCfg == [D : {FALSE}, N : BOOLEAN, P : {FALSE}, f : {30}]

Next ==
    \/ \E id \in LifeIds, cfg \in LifeCfg : AddFirst(id, cfg)
    \/ \E id \in LifeIds, cfg \in LifeCfg : Mod(id, cfg)
    \/ \E id \in LifeIds : Del(id)
    \/ \E id \in LifeIds : Start(id)
    \/ \E id \in LifeIds : StartNoWindow(id)
    \/ \E id \in LifeIds : Reload(id)
    \/ \E id \in LifeIds : Stop(id)
    \/ StartAll
    \/ ReloadAll
    \/ StopAll
    \/ \E w \in Wins : SenderReady(w)
    \/ \E w \in Wins : SenderFails(w)
    \/ \E w \in Wins : CloseEvent(w)
    \/ TimerFires

Spec == Init /\ [][Next]_vars

(* One surface under add, del, start and stop, with the window and timer
   events; the grace timer of stop() is a setTimeout: it fires. *)
NextStop ==
    \/ \E id \in LifeIds, cfg \in LifeCfg : AddFirst(id, cfg)
    \/ \E id \in LifeIds : Del(id)
    \/ \E id \in LifeIds : Start(id)
    \/ \E id \in LifeIds : Stop(id)
    \/ StopAll
    \/ \E w \in Wins : SenderReady(w)
    \/ \E w \in Wins : CloseEvent(w)
    \/ TimerFires

SpecStop == Init /\ [][NextStop]_vars /\ WF_vars(TimerFires)

(* Two surfaces under the start, stop and bulk actions. *)
BulkCfg == [D : {FALSE}, N : BOOLEAN, P : {FALSE}, f : {30}]

NextBulk ==
    \/ \E id \in Ids, cfg \in BulkCfg : AddNew(id, cfg)
    \/ \E id \in Ids : Start(id)
    \/ \E id \in Ids : Stop(id)
    \/ StartAll
    \/ ReloadAll
    \/ StopAll
    \/ \E w \in Wins : SenderReady(w)
    \/ \E w \in Wins : CloseEvent(w)
    \/ TimerFires

SpecBulk == Init /\ [][NextBulk]_vars

(* One surface, started once, and the frames its window delivers. *)
NextFrames ==
    \/ \E cfg \in Cfg : AddFirst(1, cfg)
    \/ Start(1)
    \/ \E w \in Wins : SenderReady(w)
    \/ \E w \in Wins : Frame(w)
    \/ \E o \in Objs : ImageReady(o)
    \/ \E o \in Objs : VideoSent(o)

SpecFrames == Init /\ [][NextFrames]_vars

(* One surface with NDI output, started once, on a display of any frequency
   and with any frame rate, in a window (frame subscription) or offscreen
   (paint events). *)
RateCfg == [D : BOOLEAN, N : {TRUE}, P : {FALSE}, f : 1..MaxRate]

InitRates ==
    /\ display \in 1..MaxRate
    /\ InitRegistry
    /\ stat = NoStat

NextRates ==
    \/ \E cfg \in RateCfg : AddFirst(1, cfg)
    \/ Start(1)
    \/ \E w \in Wins : SenderReady(w)

SpecRates == InitRates /\ [][NextRates]_vars

(* One surface in a window (frame subscription), under add, mod, start and
   stop, with the window and timer events. *)
SubCfg == [D : {TRUE}, N : BOOLEAN, P : BOOLEAN, f : {30}]

NextSub ==
    \/ \E cfg \in SubCfg : AddFirst(1, cfg)
    \/ \E cfg \in SubCfg : Mod(1, cfg)
    \/ Start(1)
    \/ Stop(1)
    \/ \E w \in Wins : SenderReady(w)
    \/ \E w \in Wins : CloseEvent(w)
    \/ TimerFires

SpecSub == Init /\ [][NextSub]_vars

(* One surface in a window, started once and reconfigured while its frames
   come. *)
NextMod ==
    \/ \E cfg \in SubCfg : AddFirst(1, cfg)
    \/ \E cfg \in SubCfg : Mod(1, cfg)
    \/ Start(1)
    \/ \E w \in Wins : SenderReady(w)
    \/ \E w \in Wins : Frame(w)
    \/ \E o \in Objs : ImageReady(o)
    \/ \E o \in Objs : VideoSent(o)

SpecMod == Init /\ [][NextMod]_vars

(* One id under add (also when the id is there already), del, start and
   stop, with the window and timer events. *)
NextAdd ==
    \/ \E id \in LifeIds, cfg \in LifeCfg : Add(id, cfg)
    \/ \E id \in LifeIds : Del(id)
    \/ \E id \in LifeIds : Start(id)
    \/ \E id \in LifeIds : Stop(id)
    \/ \E w \in Wins : SenderReady(w)
    \/ \E w \in Wins : CloseEvent(w)
    \/ TimerFires

SpecAdd == Init /\ [][NextAdd]_vars

(* Two surfaces under add, start and stop from the control UI while it is
   there, and its close. *)
NextShut ==
    \/ mainWin /\ \E id \in Ids, cfg \in BulkCfg : AddNew(id, cfg)
    \/ mainWin /\ \E id \in Ids : Start(id)
    \/ mainWin /\ \E id \in Ids : Stop(id)
    \/ Shutdown
    \/ \E w \in Wins : SenderReady(w)
    \/ \E w \in Wins : CloseEvent(w)
    \/ TimerFires

SpecShut == Init /\ [][NextShut]_vars

(* A WeightedAverage with a short window, under record() of any values. *)
Values  == {-2, -1, 1, 2}
Lens    == 1..MaxLen
Everys  == {1, 2}

(* new WeightedAverage(len, every) *)
InitStats ==
    /\ InitHeap
    /\ \E len \in Lens, every \in Everys :
          stat = [NoStat EXCEPT !.wa = NewWeightedAverage(len, every)]

(* record(v, callback) *)
RecordValue(v) ==
    /\ Len(stat.hist) < MaxCalls
    /\ LET r == Record(stat.wa, v)
       IN  stat' = [wa |-> r.wa, hist |-> Append(stat.hist, v), called |-> r.called,
                    sample |-> r.sample]
    /\ UNCHANGED heapVars

NextStats == \E v \in Values : RecordValue(v)

SpecStats == InitStats /\ [][NextStats]_vars

(* The trackers the program makes (usages, and burst for each frame rate) and
   trackers with a short window, under record() of 1, 2, 3, ... *)
ProgramTrackers == {<<20, 5>>} \cup {<<f, f \div 2>> : f \in Rates}
RampTrackers    == ProgramTrackers \cup {<<len, 1>> : len \in 1..MaxRamp}

InitRamp ==
    /\ InitHeap
    /\ \E c \in RampTrackers :
          stat = [NoStat EXCEPT !.wa = NewWeightedAverage(c[1], c[2])]

(* record(n, callback) for the n-th call *)
RecordNext ==
    /\ Len(stat.hist) < stat.wa.len + stat.wa.every + MaxRamp
    /\ LET r == Record(stat.wa, Len(stat.hist) + 1)
       IN  stat' = [wa |-> r.wa, hist |-> Append(stat.hist, Len(stat.hist) + 1),
                    called |-> r.called, sample |-> r.sample]
    /\ UNCHANGED heapVars

NextRamp == RecordNext

SpecRamp == InitRamp /\ [][NextRamp]_vars

(* ------------------------------ the claims ---------------------------- *)

WindowsOf(o) == {w \in Wins : wins[w].st # "none" /\ wins[w].owner = o}
Starting(o)  == \E w \in Wins : wins[w].st = "pending" /\ wins[w].owner = o
Started(o)   == obj[o].id # 0 /\ running(obj[o])

(* C1: for a started surface with NDI output and ndiFramesToSkip = k, of the
   frames that arrive 1 of every k+1 is handed to ndiSender.video, the ones
   handed over are k+1 arrivals apart, and with k = 0 every one is handed over:
   never more than k arrivals in a row are dropped, and of n arrivals between
   floor(n/(k+1)) and ceil(n/(k+1)) are sent. *)
C1_OneOfEveryKPlus1 ==
    \A o \in Objs :
        (Started(o) /\ obj[o].cfg.N) =>
            LET k == obj[o].ndiFramesToSkip
                c == count[o]
            IN  /\ c.gap <= k
                /\ c.sent * (k + 1) <= c.n + k
                /\ c.n < (c.sent + 1) * (k + 1)
                /\ (k = 0 => c.sent = c.n)

(* the outbound streams a Browser holds: the one ndiSender refers to *)
StreamsOf(o) == IF obj[o].ndiSender # 0 THEN {obj[o].ndiSender} ELSE {}

(* C2: in every reachable state each Browser has at most one BrowserWindow
   alive and at most one outbound stream. *)
C2_OneWindowOneStream ==
    \A o \in Objs : Cardinality(WindowsOf(o)) <= 1 /\ Cardinality(StreamsOf(o)) <= 1

(* C3: a start of a surface that is Created or Stopped leaves it running
   when it ends; a start of a surface that is running, or whose earlier start
   still awaits grandiose.send, fails with "browser already running" and
   creates no window. *)
C3_SecondStartFails ==
    [][ /\ \A id \in Ids :
              (lastOp' = [op |-> "start", id |-> id] /\ browsers[id] # 0) =>
                  IF running(obj[browsers[id]]) \/ Starting(browsers[id])
                  THEN result' = "browser already running" /\ wins' = wins
                  ELSE result' = "ok" => running(obj'[browsers[id]])
        /\ \A w \in Wins :
              (wins[w].st = "pending" /\ wins'[w].st = "live") =>
                  running(obj'[wins[w].owner])
      ]_vars

(* C5: at most one frame of a surface is in flight: no processFrame call of
   a Browser is suspended when the next one is entered, so never two are. *)
C5_OneFrameInFlight ==
    \A o \in Objs : inflight[o].jimp + inflight[o].send <= 1

(* C6: in polled mode (visible window, NDI output), for a freshly started
   surface with display rate R a multiple of the target rate T,
   ndiFramesToSkip is R/T - 1 and after n * (R/T) frame callbacks exactly n
   frames were sent; with R = 60 and T = 30, 10 callbacks give 5 frames. *)
C6_PolledRate ==
    \A o \in Objs :
        (Started(o) /\ obj[o].cfg.D /\ obj[o].cfg.N /\ count[o].fresh
            /\ inflight[o].jimp = 0 /\ Cardinality(WindowsOf(o)) = 1) =>
            LET per == display \div obj[o].cfg.f
            IN  /\ obj[o].ndiFramesToSkip = per - 1
                /\ (count[o].n % per = 0 => count[o].sent = count[o].n \div per)

(* C8: when a start fails because grandiose.send rejects or the window
   cannot be created, the start fails for its caller, the Browser is not
   running and has no window alive, and browser-started is not sent. *)
C8_FailedStartLeavesNothing ==
    (lastOp.op = "start-failed" \/ (lastOp.op = "start" /\ result = "window failed")) =>
        /\ result \notin {"ok", "pending"}
        /\ <<"browser-started", lastOp.id>> \notin emitted
        /\ \A o \in Objs :
              obj[o].id = lastOp.id => ~running(obj[o]) /\ WindowsOf(o) = {}

(* the window win refers to is created and loaded by a finished start() of
   this Browser, and the NDI sender is there if that start asked for one *)
Established(o) ==
    LET w == obj[o].win
    IN  /\ wins[w].st = "live"
        /\ wins[w].owner = o
        /\ wins[w].withN => obj[o].ndiSender # 0

(* C7: whenever a Browser is running, and whenever browser-started has just
   been sent for it, its BrowserWindow is created and, if its start had
   cfg.N set, grandiose.send has resolved with its sender; no Browser runs
   with a start that asked for NDI and has no sender. *)
C7_RunningMeansEstablished ==
    /\ \A o \in Objs : running(obj[o]) => Established(o)
    /\ \A id \in Ids : <<"browser-started", id>> \in emitted =>
           \E o \in Objs : obj[o].id = id /\ running(obj[o]) /\ Established(o)

C7_Witness ==
    \E o \in Objs :
        /\ running(obj[o])
        /\ wins[obj[o].win].withN
        /\ obj[o].ndiSender # 0
        /\ lastOp = [op |-> "started", id |-> obj[o].id]
        /\ <<"browser-started", obj[o].id>> \in emitted

(* the grace timer with handle t is pending: the stop() that set it has not ended *)
Stopping(t) == \E i \in 1..Len(timers) : timers[i].t = t

(* the step is the end of a stop(): its timer fires, win is null after it, and
   browser-stopped is sent exactly when control("stop") awaited it *)
StopEnds ==
    lastOp'.op = "stopped" =>
        /\ timers # <<>>
        /\ timers' = Tail(timers)
        /\ obj'[Head(timers).o].win = 0
        /\ lastOp'.id = obj[Head(timers).o].id
        /\ (Head(timers).kind = "stop") <=> (<<"browser-stopped", lastOp'.id>> \in emitted')
        /\ (Head(timers).kind = "del") => emitted' = {}

(* C4 (as amended): every stop() of a running Browser ends at the one expiry
   of its own grace timer, with win = null, whether or not the close event
   came first; browser-stopped is sent when control("stop") called it (also
   by way of stop-all), and nothing is sent when control("del") called it. *)
C4_StopCompletes ==
    /\ [][StopEnds]_vars
    /\ [](\A i \in 1..Len(timers) : timers[i].t \in 1..MaxTimers)
    /\ \A t \in 1..MaxTimers : Stopping(t) ~> ~Stopping(t)

C4_Witness ==
    /\ lastOp.op = "stopped"
    /\ browsers[lastOp.id] # 0
    /\ ~running(obj[browsers[lastOp.id]])
    /\ emitted = {<<"browser-stopped", lastOp.id>>}

(* C4 (as stated): every stop() of a running Browser ends, after one expiry
   of the grace timer, with win = null and browser-stopped sent. *)
C4_StopNotifies ==
    /\ [](lastOp.op = "stopped" =>
            /\ <<"browser-stopped", lastOp.id>> \in emitted
            /\ \A o \in Objs : obj[o].id = lastOp.id => obj[o].win = 0)
    /\ \A t \in 1..MaxTimers : Stopping(t) ~> ~Stopping(t)

BulkOps == {"start-all", "reload-all", "stop-all"}

(* the event the singular action of a bulk action sends first *)
FirstEvent(op) ==
    CASE op = "start-all"  -> "browser-start"
      [] op = "reload-all" -> "browser-reload"
      [] op = "stop-all"   -> "browser-stop"

(* id is registered and in the phase the bulk action op applies to *)
InPhase(op, id) ==
    /\ browsers[id] # 0
    /\ IF op = "start-all" THEN ~running(obj[browsers[id]])
                           ELSE running(obj[browsers[id]])

TimersOf(ts, o) == {i \in 1..Len(ts) : ts[i].o = o}

(* the step leaves the Browser o, its windows and its timers as they are *)
Untouched(o) ==
    /\ obj'[o] = obj[o]
    /\ \A w \in Wins : (wins[w].owner = o \/ wins'[w].owner = o) => wins'[w] = wins[w]
    /\ Cardinality(TimersOf(timers', o)) = Cardinality(TimersOf(timers, o))

(* C9: start-all, reload-all and stop-all dispatch the singular action to the
   Browsers in the phase it applies to (not running for start, running for
   reload and stop) and to no other: a Browser in the other phase is left as
   it is, no event is sent for it and no error is raised. *)
C9_BulkSkipsOtherPhase ==
    [][ lastOp'.op \in BulkOps =>
          /\ result' = "ok"
          /\ rejected' = {}
          /\ browsers' = browsers
          /\ \A id \in Ids :
                IF InPhase(lastOp'.op, id)
                THEN <<FirstEvent(lastOp'.op), id>> \in emitted'
                ELSE /\ \A e \in emitted' : e[2] # id
                     /\ browsers[id] # 0 => Untouched(browsers[id])
      ]_vars

C9_Witness ==
    /\ lastOp.op = "stop-all"
    /\ emitted = {<<"browser-stop", 1>>}
    /\ browsers[1] # 0 /\ running(obj[browsers[1]])
    /\ browsers[2] # 0 /\ ~running(obj[browsers[2]])
    /\ \E i \in 1..Len(timers) : timers[i].o = browsers[1]
    /\ \A i \in 1..Len(timers) : timers[i].o # browsers[2]

SingleOps == {"mod", "del", "start", "stop", "reload"}

(* C10: mod, del, start, stop and reload of an id that is not in the registry
   fail with "invalid browser id", change neither the registry nor any
   Browser, window or timer, and send no event. *)
C10_UnknownIdFails ==
    [][ (lastOp'.op \in SingleOps /\ browsers[lastOp'.id] = 0) =>
          /\ result' = "invalid browser id"
          /\ emitted' = {}
          /\ browsers' = browsers
          /\ obj' = obj /\ wins' = wins /\ timers' = timers
      ]_vars

(* the step changes nothing of the program's state *)
NothingChanges ==
    /\ browsers' = browsers /\ obj' = obj /\ wins' = wins /\ timers' = timers
    /\ inflight' = inflight /\ count' = count

(* C11: start of a running Browser, and reload or stop of a Browser that is
   not running, fail for the caller before any await, with the already
   running / still not running error, change nothing of the Browser (win,
   ndiSender, subscribed, frames, cfg) or of anything else, and send no
   event. *)
C11_WrongPhaseFails ==
    [][ \A id \in Ids :
          (lastOp'.id = id /\ browsers[id] # 0) =>
              /\ (lastOp'.op = "start" /\ running(obj[browsers[id]])) =>
                    (result' = "browser already running" /\ emitted' = {} /\ NothingChanges)
              /\ (lastOp'.op \in {"reload", "stop"} /\ ~running(obj[browsers[id]])) =>
                    (result' = "browser still not running" /\ emitted' = {} /\ NothingChanges)
      ]_vars

C11_Witness ==
    /\ lastOp.op = "stop"
    /\ browsers[lastOp.id] # 0
    /\ Starting(browsers[lastOp.id])
    /\ result = "browser still not running"

(* the event e is sent in this step, and the event a earlier in it *)
SentAfter(e, a) ==
    \E j \in 1..Len(events') : events'[j] = e /\ \E i \in 1..(j - 1) : events'[i] = a

(* the timers this step sets *)
NewTimers == {i \in 1..Len(timers') : i > Len(timers) - (IF lastOp'.op = "stopped" THEN 1 ELSE 0)}

(* the step sends the about-to event of a start, reload or stop of id that
   passes its tests, first of all, and the operation follows *)
AboutToFirst(id) ==
    LET o == browsers[id]
    IN  /\ (lastOp' = [op |-> "start", id |-> id] /\ o # 0 /\ ~running(obj[o])) =>
              /\ events'[1] = <<"browser-start", id>>
              /\ \/ \E w \in Wins : wins[w].st = "none" /\ wins'[w].st = "pending"
                                    /\ wins'[w].owner = o
                 \/ SentAfter(<<"browser-started", id>>, <<"browser-start", id>>)
                 \/ result' = "window failed"
        /\ (lastOp' = [op |-> "reload", id |-> id] /\ o # 0 /\ running(obj[o])) =>
              events' = << <<"browser-reload", id>>, <<"browser-reloaded", id>> >>
        /\ (lastOp' = [op |-> "stop", id |-> id] /\ o # 0 /\ running(obj[o])) =>
              /\ events' = << <<"browser-stop", id>> >>
              /\ \E i \in NewTimers : timers'[i].o = o /\ timers'[i].kind = "stop"

(* a completion event of id is sent after its about-to event: in the same
   step, or in the step that ends an operation an earlier step began; and an
   operation is begun (a window awaits its sender, a timer awaits its expiry
   for control("stop")) only in a step that sends the about-to event *)
CompletionFollows(id) ==
    /\ <<"browser-started", id>> \in emitted' =>
          \/ SentAfter(<<"browser-started", id>>, <<"browser-start", id>>)
          \/ /\ lastOp'.op = "started"
             /\ \E w \in Wins : wins[w].st = "pending" /\ wins'[w].st = "live"
                                /\ obj[wins[w].owner].id = id
    /\ <<"browser-reloaded", id>> \in emitted' =>
          SentAfter(<<"browser-reloaded", id>>, <<"browser-reload", id>>)
    /\ <<"browser-stopped", id>> \in emitted' =>
          /\ lastOp'.op = "stopped"
          /\ timers # <<>> /\ Head(timers).kind = "stop" /\ obj[Head(timers).o].id = id
    /\ \A w \in Wins :
          (wins[w].st # "pending" /\ wins'[w].st = "pending" /\ obj'[wins'[w].owner].id = id) =>
              <<"browser-start", id>> \in emitted'
    /\ \A i \in NewTimers :
          (timers'[i].kind = "stop" /\ obj'[timers'[i].o].id = id) =>
              <<"browser-stop", id>> \in emitted'

(* a completion event of id is sent only when the operation has succeeded *)
CompletionMeansDone(id) ==
    /\ <<"browser-started", id>> \in emitted' =>
          /\ result' = "ok"
          /\ \E o \in Objs : obj'[o].id = id /\ running(obj'[o])
    /\ <<"browser-reloaded", id>> \in emitted' =>
          (result' = "ok" /\ browsers[id] # 0 /\ running(obj[browsers[id]]))
    /\ <<"browser-stopped", id>> \in emitted' =>
          (timers # <<>> /\ obj'[Head(timers).o].win = 0)

(* C12: a singular start, reload or stop that passes its tests sends the
   about-to event before the operation and the completion event after it has
   ended; every completion event of an id follows its about-to event, and is
   sent only when the operation succeeded. *)
C12_EventsBracketOperation ==
    [][ /\ lastOp'.id \in Ids => AboutToFirst(lastOp'.id)
        /\ (events' # <<>> \/ wins' # wins \/ timers' # timers) =>
              \A id \in Ids : CompletionFollows(id) /\ CompletionMeansDone(id)
      ]_vars

C12_Witness ==
    /\ lastOp.op = "started"
    /\ events = << <<"browser-started", lastOp.id>> >>
    /\ browsers[lastOp.id] # 0
    /\ running(obj[browsers[lastOp.id]])

(* the values of the last n record() calls, n at most the calls made *)
LastRecorded(n) ==
    LET c == Len(stat.hist)
    IN  {stat.hist[i] : i \in (IF c > n THEN c - n + 1 ELSE 1)..c}

(* C13: whenever a record() call reports (calls back), the max it reports is
   not greater than the largest, and the min it reports not smaller than the
   smallest, of the last N values recorded (of all of them, when fewer than N
   were recorded), N being the window length. *)
C13_ReportWithinWindow ==
    stat.called =>
        /\ \E x \in LastRecorded(stat.wa.len) : ~Lt(Fin(x), stat.sample.max)
        /\ \E x \in LastRecorded(stat.wa.len) : ~Lt(stat.sample.min, Fin(x))

(* C14: the tmin and tmax of every StatSample passed to the callback are the
   smallest and the largest of all values recorded so far. *)
C14_TotalsAreExtremes ==
    stat.called =>
        /\ \E x \in LastRecorded(Len(stat.hist)) : stat.sample.tmin = Fin(x)
        /\ \E x \in LastRecorded(Len(stat.hist)) : stat.sample.tmax = Fin(x)
        /\ \A x \in LastRecorded(Len(stat.hist)) :
              ~Lt(Fin(x), stat.sample.tmin) /\ ~Lt(stat.sample.tmax, Fin(x))

(* C15: for the trackers the program makes (every = 5 for the CPU usage,
   every = framerate / 2 for a surface), record() calls back on the calls
   number K, 2K, 3K, ... and on no other, K being the tracker's every. *)
C15_CallbackEveryKth ==
    (<<stat.wa.len, stat.wa.every>> \in ProgramTrackers /\ Len(stat.hist) > 0) =>
        (stat.called <=> Len(stat.hist) % stat.wa.every = 0)

(* the record() call that completes 1, 2, ..., N in a fresh tracker of window N *)
RampComplete == stat.wa.len >= 1 /\ Len(stat.hist) = stat.wa.len

(* C16, as stated: after 1, 2, ..., N were recorded in this order into a fresh
   tracker of window N, N >= 1, the weighted average is strictly greater than
   (N + 1) / 2. *)
C16_RampAboveMean ==
    RampComplete =>
        2 * stat.sample.avg[1] > (stat.wa.len + 1) * stat.sample.avg[2]

(* C16, amended: it is strictly greater than (N + 1) / 2 for N >= 2, and
   equal to it (both are 1) for N = 1. *)
C16_RampAboveMeanFrom2 ==
    RampComplete =>
        IF stat.wa.len >= 2
        THEN 2 * stat.sample.avg[1] > (stat.wa.len + 1) * stat.sample.avg[2]
        ELSE 2 * stat.sample.avg[1] = (stat.wa.len + 1) * stat.sample.avg[2]

C16_Witness ==
    /\ RampComplete
    /\ stat.wa.len = 20
    /\ stat.hist[20] = 20
    /\ stat.sample.avg[2] = 210

(* the step creates a window for the Browser o *)
CreatesWindow(o) ==
    \E w \in Wins : wins[w].st = "none" /\ wins'[w].st # "none" /\ wins'[w].owner = o

(* C17, as stated: the start, reload or stop of a surface that comes next
   after its destroy() (run by the close event of its window) is rejected and
   creates no window. *)
C17_DestroyedIsFinal ==
    [][ (/\ lastOp.op = "close" /\ result = "ok"
         /\ lastOp'.op \in {"start", "reload", "stop"} /\ lastOp'.id = lastOp.id
         /\ browsers[lastOp.id] # 0)
        => (result' \notin {"ok", "pending"} /\ ~CreatesWindow(browsers[lastOp.id]))
      ]_vars

(* C17, amended: destroy() leaves the surface not running (win = null), as
   one never started, and it stays so until a start; while it is not running
   a reload or stop is rejected and changes nothing, a second destroy()
   throws, and a start is accepted and creates a new window. *)
C17_DestroyedIsNotRunning ==
    [][ /\ lastOp'.op = "close" =>
              \A w \in Wins :
                  (wins[w].st = "live" /\ wins'[w].st = "none") =>
                      (result' = "ok" /\ ~running(obj'[wins[w].owner]))
        /\ \A o \in Objs :
              (obj[o].id # 0 /\ ~running(obj[o])) =>
                  /\ Destroy(Heap, o).result = "still not started"
                  /\ running(obj'[o]) => lastOp'.op \in {"start", "started", "start-all"}
        /\ (lastOp'.id \in Ids /\ browsers[lastOp'.id] # 0
              /\ ~running(obj[browsers[lastOp'.id]])) =>
                  /\ lastOp'.op \in {"reload", "stop"} =>
                        (result' = "browser still not running" /\ NothingChanges)
                  /\ (lastOp'.op = "start" /\ result' \in {"ok", "pending"}) =>
                        CreatesWindow(browsers[lastOp'.id])
      ]_vars

C17_Witness ==
    /\ lastOp.op = "close" /\ result = "ok"
    /\ browsers[lastOp.id] # 0
    /\ ~running(obj[browsers[lastOp.id]])
    /\ \A w \in Wins : wins[w].st = "none"

(* the step makes the skip test of processFrame for a frame of the Browser o
   (in the call itself, or when the call resumes with the preview image), and
   the test fails: the frame is not forwarded *)
NotForwarded(o) ==
    /\ obj[o].id # 0 /\ lastOp'.id = obj[o].id
    /\ obj[o].cfg.N
    /\ \/ lastOp'.op = "frame" /\ ~obj[o].cfg.P
       \/ lastOp'.op = "preview"
    /\ ~(obj[o].frames > obj[o].ndiFramesToSkip)

(* the step hands no frame of the Browser o to ndiSender.video *)
NoVideo(o) ==
    count'[o].sent = count[o].sent /\ inflight'[o].send = inflight[o].send

(* C18, as stated: a frame that is not forwarded (the skip test fails for
   it) gives no 'capture' event and no call of ndiSender.video. *)
C18_SkippedFrameGivesNothing ==
    [][ \A o \in Objs :
          NotForwarded(o) => (NoVideo(o) /\ <<"capture", obj[o].id>> \notin emitted')
      ]_vars

(* C18, amended: a frame that is not forwarded gives no call of
   ndiSender.video; the 'capture' event does not depend on the skip test:
   with the preview on, every frame gives one, forwarded or not. *)
C18_SkippedFrameGivesNoVideo ==
    [][ \A o \in Objs :
          /\ NotForwarded(o) => NoVideo(o)
          /\ (obj[o].id # 0 /\ lastOp' = [op |-> "preview", id |-> obj[o].id]) =>
                events'[1] = <<"capture", obj[o].id>>
          /\ (obj[o].id # 0 /\ lastOp' = [op |-> "frame", id |-> obj[o].id]
                /\ obj[o].cfg.P) =>
                inflight'[o].jimp = inflight[o].jimp + 1
      ]_vars

C18_Witness ==
    /\ lastOp.op = "preview"
    /\ events = << <<"capture", lastOp.id>> >>
    /\ \E o \in Objs :
          /\ obj[o].id = lastOp.id /\ obj[o].cfg.N /\ obj[o].cfg.P
          /\ count[o].n = 1 /\ count[o].sent = 0 /\ inflight[o].send = 0

(* C19, as stated: a finished start() with NDI output leaves ndiFramesToSkip
   at floor(R / T) - 1 when the surface is a window (frame subscription), R
   the display frequency and T the frame rate, also when T > R, and at 0
   when it is offscreen (paint events). *)
C19_SkipIsFloorMinus1 ==
    \A o \in Objs :
        (Started(o) /\ obj[o].cfg.N) =>
            obj[o].ndiFramesToSkip =
                IF obj[o].cfg.D THEN (display \div obj[o].cfg.f) - 1 ELSE 0

(* C19, amended: it is floor(R / T) - 1 for T <= R and 0 for T > R when the
   surface is a window, and 0 when it is offscreen. *)
C19_SkipIsTruncOfRatioMinus1 ==
    \A o \in Objs :
        (Started(o) /\ obj[o].cfg.N) =>
            obj[o].ndiFramesToSkip =
                IF obj[o].cfg.D /\ obj[o].cfg.f <= display
                THEN (display \div obj[o].cfg.f) - 1
                ELSE 0

C19_Witness ==
    \E o \in Objs :
        /\ Started(o) /\ obj[o].cfg.N /\ obj[o].cfg.D
        /\ lastOp.op = "started"
        /\ obj[o].cfg.f > display
        /\ obj[o].ndiFramesToSkip = 0

(* the step is a reconfigure of the Browser o, running in a window (polled
   mode) with the window w *)
ReconfigureOf(o, w) ==
    /\ lastOp'.op = "mod" /\ browsers[lastOp'.id] = o /\ result' = "ok"
    /\ obj[o].win = w /\ w # 0 /\ obj[o].cfg.D /\ obj'[o].cfg.D

(* C20: a reconfigure of a running surface in a window keeps the window; the
   same configuration applied once more changes nothing of the frame
   subscription; it calls endFrameSubscription (subscribed goes from true to
   false) only on a window that has a frame subscription, and
   beginFrameSubscription (subscribed goes from false to true) only on a
   window that has none; after any start, stop and reconfigure. *)
C20_ReconfigureKeepsSubscription ==
    [][ \A o \in Objs, w \in Wins :
          ReconfigureOf(o, w) =>
              /\ obj'[o].win = w /\ wins'[w].st = wins[w].st
              /\ LET g == Reconfigure(Heap', o, obj'[o].cfg)
                 IN  g.wins = wins' /\ g.obj = obj'
              /\ (obj[o].subscribed /\ ~obj'[o].subscribed) => wins[w].sub
              /\ (~obj[o].subscribed /\ obj'[o].subscribed) => ~wins[w].sub
      ]_vars

(* C21: when a start of a surface has just completed (no stop, del or close
   event has come after it), the expiry of the grace timer of an earlier
   stop() of that surface leaves the surface running: it destroys no window
   of it and does not set win to null. *)
C21_TimerSparesLaterStart ==
    [][ \A o \in Objs :
          (/\ lastOp.op \in {"start", "started"} /\ result = "ok"
           /\ obj[o].id = lastOp.id /\ running(obj[o])
           /\ lastOp'.op = "stopped"
           /\ timers # <<>> /\ Head(timers).o = o)
          => (obj'[o].win = obj[o].win /\ wins'[obj[o].win].st = "live")
      ]_vars

(* C22: while a surface runs in a window (polled mode), its window has a
   frame subscription exactly when cfg.N or cfg.P is set, and the subscribed
   flag tells whether that window has one; after any reconfigure, stop and
   start. *)
C22_SubscriptionFollowsConfig ==
    \A o \in Objs :
        (Started(o) /\ obj[o].cfg.D /\ wins[obj[o].win].st = "live"
            /\ ~wins[obj[o].win].offscr) =>
            /\ wins[obj[o].win].sub <=> (obj[o].cfg.N \/ obj[o].cfg.P)
            /\ obj[o].subscribed <=> wins[obj[o].win].sub

(* the step makes the skip test of processFrame for a frame of the Browser o
   and the test passes: the frame goes to ndiSender.video *)
Forwarded(o) ==
    /\ obj[o].id # 0 /\ lastOp'.id = obj[o].id
    /\ obj[o].cfg.N
    /\ \/ lastOp'.op = "frame" /\ ~obj[o].cfg.P
       \/ lastOp'.op = "preview"
    /\ obj[o].frames > obj[o].ndiFramesToSkip

(* C23: whenever processFrame goes to send a frame (cfg.N is set and the
   skip test passes), ndiSender is not null; after any start and
   reconfigure. *)
C23_SenderThereWhenSending ==
    [][ \A o \in Objs : Forwarded(o) => (obj[o].ndiSender # 0 /\ result' # "TypeError") ]_vars

(* C24: every live window is the win of a Browser in the registry, or is the
   win of a Browser with a pending stop() timer (which will destroy it). *)
C24_NoOrphanWindow ==
    \A w \in Wins :
        wins[w].st = "live" =>
            \/ \E id \in Ids : browsers[id] # 0 /\ obj[browsers[id]].win = w
            \/ \E i \in 1..Len(timers) :
                  timers[i].o = wins[w].owner /\ obj[timers[i].o].win = w

(* C25: when the control UI window is destroyed at shutdown, every surface
   that was running has been stopped (its stop() has ended: no timer of it
   is pending, win is null); and no browser-stopped is sent once the window
   is destroyed. *)
C25_StopsEndBeforeMainWinGoes ==
    [][ /\ (mainWin /\ ~mainWin') =>
              /\ timers' = <<>>
              /\ \A o \in Objs : running(obj[o]) => ~running(obj'[o])
        /\ ~mainWin => \A id \in Ids : <<"browser-stopped", id>> \notin emitted'
      ]_vars

====
